---- MODULE Spec2Model ----
(***************************************************************************)
(* A model of src/pdf_report_generator.py (VehicleDamageReportGenerator):  *)
(* the value formatter, the generic per-section walk of generate_report,   *)
(* the dedicated section builders and the pages the renderer builds.       *)
(*                                                                         *)
(* Python values are tagged records [t, v]:                                *)
(*   int   v = the integer          bool  v = TRUE / FALSE                 *)
(*   float v = the value in tenths  str   v = the text                     *)
(*   list  v = sequence of values   dict  v = sequence of [k, v] entries   *)
(* (a dict keeps its insertion order, as Python's does).                   *)
(* Text is a TLA+ string, built and taken apart character by character.    *)
(***************************************************************************)
EXTENDS Integers, Sequences, FiniteSets, TLC

VARIABLES
    fv_value,        \* _format_value: the value argument
    fv_align_right,  \* _format_value: the align_right argument
    fv_is_boolean,   \* _format_value: the is_boolean argument
    fv_result,       \* _format_value: what the call gave (NoResult before it)
    files,           \* which of the font, logo and QR-code files can be read
    data,            \* generate_report: the data argument, a dict
    report_data,     \* generate_report: data.get('data', {})
    story,           \* the content sequence (a list of flowables)
    pos,             \* generate_report: items of report_data already walked
    pc,              \* where the running method stands
    log,             \* messages handed to logging, in order
    pages            \* the pages of the document the renderer built, in order

vars == <<fv_value, fv_align_right, fv_is_boolean, fv_result,
          files, data, report_data, story, pos, pc, log, pages>>

-----------------------------------------------------------------------------
(* Python values *)

VInt(n) == [t |-> "int", v |-> n]

VFloat(m) == [t |-> "float", v |-> m]

VBool(b) == [t |-> "bool", v |-> b]

VStr(s) == [t |-> "str", v |-> s]

VList(items) == [t |-> "list", v |-> items]

VDict(entries) == [t |-> "dict", v |-> entries]

Entry(key, value) == [k |-> key, v |-> value]

\* isinstance(value, (int, float)): bool is a subclass of int
IsIntOrFloat(value) == value.t \in {"int", "float", "bool"}

IsBool(value) == value.t = "bool"

IsList(value) == value.t = "list"

IsDict(value) == value.t = "dict"

\* Python truthiness, as in `"Yes" if value else "No"` and `if not section_data`
Truthy(value) ==
    CASE value.t = "bool" -> value.v
      [] value.t \in {"int", "float"} -> value.v # 0
      [] value.t = "str" -> value.v # ""
      [] OTHER -> Len(value.v) > 0

\* key in d
HasKey(d, key) == \E j \in 1..Len(d.v) : d.v[j].k = key

\* d[key]
Lookup(d, key) == d.v[CHOOSE j \in 1..Len(d.v) : d.v[j].k = key].v

\* d.get(key, default)
Get(d, key, default) == IF HasKey(d, key) THEN Lookup(d, key) ELSE default

\* the keys of a dict, in order
Keys(d) == [j \in 1..Len(d.v) |-> d.v[j].k]

-----------------------------------------------------------------------------
(* Text *)

Digit(d) == SubSeq("0123456789", d + 1, d + 1)

RECURSIVE NatStr(_)
NatStr(n) == IF n < 10 THEN Digit(n) ELSE NatStr(n \div 10) \o Digit(n % 10)

Abs(n) == IF n < 0 THEN -n ELSE n

Sign(n) == IF n < 0 THEN "-" ELSE ""

\* one group of three digits, zero-padded
Group3(r) == Digit(r \div 100) \o Digit((r \div 10) % 10) \o Digit(r % 10)

RECURSIVE NatGrouped(_)
NatGrouped(n) ==
    IF n < 1000 THEN NatStr(n)
    ELSE NatGrouped(n \div 1000) \o "," \o Group3(n % 1000)

\* "{:,}".format(value) for an int, a bool (formatted as the int 1 or 0) or a
\* float (here a number of tenths, whose repr has one fractional digit)
FormatComma(value) ==
    CASE value.t = "int" -> Sign(value.v) \o NatGrouped(Abs(value.v))
      [] value.t = "bool" -> IF value.v THEN "1" ELSE "0"
      [] value.t = "float" ->
            Sign(value.v) \o NatGrouped(Abs(value.v) \div 10)
                \o "." \o Digit(Abs(value.v) % 10)

\* whether f"{value:,}" formats: a str raises ValueError, a list or dict TypeError
CommaFormats(value) == IsIntOrFloat(value)

UpperLetters == "ABCDEFGHIJKLMNOPQRSTUVWXYZ"

LowerLetters == "abcdefghijklmnopqrstuvwxyz"

\* the lower-case letter of each upper-case letter, and the reverse
ToLower == [c \in {SubSeq(UpperLetters, j, j) : j \in 1..26} |->
               LET j == CHOOSE j \in 1..26 : SubSeq(UpperLetters, j, j) = c
               IN  SubSeq(LowerLetters, j, j)]

ToUpper == [c \in {SubSeq(LowerLetters, j, j) : j \in 1..26} |->
               LET j == CHOOSE j \in 1..26 : SubSeq(LowerLetters, j, j) = c
               IN  SubSeq(UpperLetters, j, j)]

LowerChar(c) == IF c \in DOMAIN ToLower THEN ToLower[c] ELSE c

UpperChar(c) == IF c \in DOMAIN ToUpper THEN ToUpper[c] ELSE c

\* s.lower()
RECURSIVE Lower(_)
Lower(s) == IF s = "" THEN "" ELSE LowerChar(Head(s)) \o Lower(Tail(s))

\* s.upper()
RECURSIVE Upper(_)
Upper(s) == IF s = "" THEN "" ELSE UpperChar(Head(s)) \o Upper(Tail(s))

\* word in s
Contains(s, word) ==
    \E j \in 1..(Len(s) - Len(word) + 1) : SubSeq(s, j, j + Len(word) - 1) = word

\* any(word in s for word in words)
ContainsAny(s, words) == \E word \in words : Contains(s, word)

\* sep.join(parts)
RECURSIVE Join(_, _)
Join(sep, parts) ==
    IF Len(parts) = 0 THEN ""
    ELSE IF Len(parts) = 1 THEN parts[1]
    ELSE parts[1] \o sep \o Join(sep, Tail(parts))

\* repr(value) and str(value); they differ on a str only
RECURSIVE PyRepr(_)
PyRepr(value) ==
    CASE value.t = "int" -> Sign(value.v) \o NatStr(Abs(value.v))
      [] value.t = "float" ->
            Sign(value.v) \o NatStr(Abs(value.v) \div 10) \o "." \o Digit(Abs(value.v) % 10)
      [] value.t = "bool" -> IF value.v THEN "True" ELSE "False"
      [] value.t = "str" -> "'" \o value.v \o "'"
      [] value.t = "list" ->
            "[" \o Join(", ", [j \in 1..Len(value.v) |-> PyRepr(value.v[j])]) \o "]"
      [] value.t = "dict" ->
            "{" \o Join(", ", [j \in 1..Len(value.v) |->
                      "'" \o value.v[j].k \o "': " \o PyRepr(value.v[j].v)]) \o "}"

PyStr(value) == IF value.t = "str" THEN value.v ELSE PyRepr(value)

-----------------------------------------------------------------------------
(* _get_cell_style and _format_value *)

LEFT == 0

CENTER == 1

RIGHT == 2

\* Paragraph(text, self._get_cell_style(alignment))
Paragraph(text, alignment) == [kind |-> "Paragraph", text |-> text, alignment |-> alignment]

\* `return value`: the raw dict, no Paragraph
Raw(value) == [kind |-> "raw", value |-> value]

\* the call raised
Raised(exc) == [kind |-> "raise", exc |-> exc]

NoResult == [kind |-> "none"]

YesNo(value) == IF Truthy(value) THEN "Yes" ELSE "No"

\* the exception of f"{value:,}"
CommaError(value) == IF value.t = "str" THEN "ValueError" ELSE "TypeError"

\* one dict item of a list, lines 611-620
FormatListItem(item) ==
    IF HasKey(item, "Dealer") /\ HasKey(item, "Value")
    THEN PyStr(Lookup(item, "Dealer")) \o ": Rs. " \o FormatComma(Lookup(item, "Value"))
    ELSE Join(", ", [j \in 1..Len(item.v) |->
             item.v[j].k \o ": " \o
                 (IF IsBool(item.v[j].v) THEN YesNo(item.v[j].v) ELSE PyStr(item.v[j].v))])

\* whether formatting the dict item raises: a 'Value' that "{:,}" cannot format
ListItemRaises(item) ==
    HasKey(item, "Dealer") /\ HasKey(item, "Value") /\ ~CommaFormats(Lookup(item, "Value"))

MoneyWords == {"cost", "price", "value"}

\* one key of an ordinary dict, lines 637-643
FormatPair(e) ==
    IF IsBool(e.v) THEN e.k \o ": " \o YesNo(e.v)
    ELSE IF IsIntOrFloat(e.v) /\ ContainsAny(Lower(e.k), MoneyWords)
         THEN e.k \o ": Rs. " \o FormatComma(e.v)
         ELSE e.k \o ": " \o PyStr(e.v)

\* the numeric branch without the currency marker
FormatNumberNoMarker(value, align_right) ==
    Paragraph(FormatComma(value), IF align_right THEN RIGHT ELSE LEFT)

\* the numeric branch, lines 595-600
FormatNumber(value, align_right) ==
    Paragraph((IF align_right THEN "Rs. " ELSE "") \o FormatComma(value),
              IF align_right THEN RIGHT ELSE LEFT)

\* _format_value(value, align_right, is_boolean)
FormatValue(value, align_right, is_boolean) ==
    IF is_boolean THEN Paragraph(YesNo(value), LEFT)
    ELSE IF IsIntOrFloat(value)
    THEN FormatNumber(value, align_right)
    ELSE IF IsBool(value) THEN Paragraph(YesNo(value), LEFT)
    ELSE IF IsList(value)
    THEN IF \A j \in 1..Len(value.v) : IsDict(value.v[j])
         THEN IF \E j \in 1..Len(value.v) : ListItemRaises(value.v[j])
              THEN Raised(CommaError(Lookup(
                       value.v[CHOOSE j \in 1..Len(value.v) :
                           /\ ListItemRaises(value.v[j])
                           /\ \A h \in 1..(j - 1) : ~ListItemRaises(value.v[h])],
                       "Value")))
              ELSE Paragraph(Join("\n", [j \in 1..Len(value.v) |-> FormatListItem(value.v[j])]),
                             LEFT)
         ELSE Paragraph(Join(", ", [j \in 1..Len(value.v) |-> PyStr(value.v[j])]), LEFT)
    ELSE IF IsDict(value)
    THEN IF HasKey(value, "Dealer") /\ HasKey(value, "Value")
         THEN IF CommaFormats(Lookup(value, "Value"))
              THEN Paragraph(PyStr(Lookup(value, "Dealer")) \o ": Rs. "
                                 \o FormatComma(Lookup(value, "Value")), LEFT)
              ELSE Raised(CommaError(Lookup(value, "Value")))
         ELSE IF HasKey(value, "Observation") \/ HasKey(value, "Recommendation")
         THEN Raw(value)
         ELSE Paragraph(Join("\n", [j \in 1..Len(value.v) |-> FormatPair(value.v[j])]), LEFT)
    ELSE Paragraph(PyStr(value), LEFT)

-----------------------------------------------------------------------------
(* Flowables *)

\* a plain Python string standing in a table cell
Plain(text) == [kind |-> "str", text |-> text]

\* Paragraph(text, style) placed in the story: a section header
HeaderParagraph(text, style) == [kind |-> "Paragraph", text |-> text, style |-> style]

Spacer(width, height) == [kind |-> "Spacer", width |-> width, height |-> height]

PageBreak == [kind |-> "PageBreak"]

\* _create_image_placeholder(width, height)
ImagePlaceholder(width, height) == [kind |-> "Drawing", width |-> width, height |-> height]

\* _get_table_style(has_money, num_rows): the header row's background and bold
\* font, the gray odd data rows, the right-aligned last column
GetTableStyle(has_money, num_rows) ==
    [header_rows |-> {0},
     gray_rows |-> {r \in 1..(num_rows - 1) : r % 2 = 1},
     right_last_column |-> has_money]

\* Table(data, colWidths = a list of ncols widths, style)
Table(rows, ncols, style) ==
    [kind |-> "Table", data |-> rows, ncols |-> ncols, style |-> style]

\* the one-row layout table of lines 744-763: the data table, a spacer, an image
LayoutTable(table) ==
    [kind |-> "LayoutTable", table |-> table, image |-> ImagePlaceholder(150, 150)]

\* _create_image_placeholders_grid(story): what it appends
ImagePlaceholdersGrid ==
    LET row == <<ImagePlaceholder(250, 200), Spacer(20, 20), ImagePlaceholder(250, 200)>>
    IN  <<Spacer(1, 15), [kind |-> "GridContainer", rows |-> <<row, row>>], Spacer(1, 15)>>

\* _create_header(story): what it appends, given the image files that can be read
CreateHeader(f) ==
    <<[kind |-> "HeaderTable",
       logo_row |-> IF f.logo THEN <<"Image", "ReadyAssist">> ELSE <<"ReadyAssist">>,
       qr_table |-> IF f.qr THEN <<"Image">> ELSE <<"QR">>,
       title |-> "Comprehensive Vehicle Report",
       subtitle |-> "A system generated report by AI operated Impact Analysis system"],
      Spacer(1, 15)>>

-----------------------------------------------------------------------------
(* generate_report: one section of the walk *)

\* what a step gives: the blocks appended to the story and the exception raised ("" if none)
Done(blocks) == [blocks |-> blocks, exc |-> ""]

Failed(blocks, exc) == [blocks |-> blocks, exc |-> exc]

\* the first cell of a row sequence that is a raise, or NoResult
FirstRaise(cells) ==
    IF \E j \in 1..Len(cells) : cells[j].kind = "raise"
    THEN cells[CHOOSE j \in 1..Len(cells) :
                  /\ cells[j].kind = "raise"
                  /\ \A h \in 1..(j - 1) : cells[h].kind # "raise"]
    ELSE NoResult

\* lines 693-696
HasDamageFormat(section_data) ==
    \E j \in 1..Len(section_data.v) :
        /\ IsDict(section_data.v[j].v)
        /\ \/ HasKey(section_data.v[j].v, "Observation")
           \/ HasKey(section_data.v[j].v, "Recommendation")

DictEntry(e) == IsDict(e.v)

\* lines 703-707; the Observation and Recommendation of the inputs are str
DamageRow(e) ==
    <<Paragraph(e.k, LEFT),
      Paragraph(Get(e.v, "Observation", VStr("N/A")).v, LEFT),
      Paragraph(Get(e.v, "Recommendation", VStr("N/A")).v, LEFT)>>

\* lines 700-707: the header row and one row per entry that is a dict
DamageTableData(section_data) ==
    LET entries == SelectSeq(section_data.v, DictEntry)
    IN  <<<<Plain("Component"), Plain("OBSERVATION"), Plain("RECOMMENDATION")>>>>
            \o [j \in 1..Len(entries) |-> DamageRow(entries[j])]

\* lines 698-714
DamageBlocks(section_data) ==
    LET table_data == DamageTableData(section_data)
    IN  Done(IF Len(table_data) > 1
             THEN <<Table(table_data, 3, GetTableStyle(FALSE, Len(table_data)))>>
             ELSE <<>>)

\* the test without .lower()
IsMoneySectionCaseSensitive(section_key) ==
    ContainsAny(section_key, {"cost", "price", "value", "estimation"})

\* line 717
IsMoneySection(section_key) ==
    ContainsAny(Lower(section_key), {"cost", "price", "value", "estimation"})

\* lines 739-740
ShouldAddImage(section_key) ==
    ContainsAny(Lower(section_key),
                {"vehicle details", "vehicle dashboard", "vehicle condition",
                 "stickers", "signs"})

\* lines 723-730
KeyValueCell(section_key, e) ==
    FormatValue(e.v,
                IsMoneySection(section_key) /\ IsIntOrFloat(e.v),
                IsBool(e.v) \/ Lower(e.k) \in {"same vehicle detected"})

\* lines 716-772
KeyValueBlocks(section_key, section_data) ==
    LET cells == [j \in 1..Len(section_data.v) |-> KeyValueCell(section_key, section_data.v[j])]
        table_data == <<<<Plain("Parameter"), Plain("DETAILS")>>>>
            \o [j \in 1..Len(cells) |-> <<Paragraph(section_data.v[j].k, LEFT), cells[j]>>]
        table == Table(table_data, 2,
                       GetTableStyle(IsMoneySection(section_key), Len(table_data)))
    IN  IF FirstRaise(cells) # NoResult THEN Failed(<<>>, FirstRaise(cells).exc)
        ELSE IF Len(table_data) > 1
        THEN Done(<<IF ShouldAddImage(section_key) THEN LayoutTable(table) ELSE table>>)
        ELSE Done(<<>>)

\* lines 779-784
DealerTableData(section_data) ==
    <<<<Plain("Dealer"), Plain("VALUE")>>>>
        \o [j \in 1..Len(section_data.v) |->
               <<Paragraph(PyStr(Get(section_data.v[j], "Dealer", VStr("N/A"))), LEFT),
                 FormatValue(Get(section_data.v[j], "Value", VInt(0)), TRUE, FALSE)>>]

\* set().union(*(d.keys() for d in section_data))
UnionKeys(section_data) ==
    UNION {{section_data.v[j].v[h].k : h \in 1..Len(section_data.v[j].v)} :
              j \in 1..Len(section_data.v)}

\* one cell of the generic list of dicts, lines 792-794
GenericCell(item, key) ==
    LET value == Get(item, key, VStr("N/A"))
    IN  FormatValue(value, FALSE, IsBool(value))

PresentKey(item, keys) == SelectSeq(keys, LAMBDA key : HasKey(item, key))

\* rows that hold a cell only for the keys the record has
GenericTableDataRagged(section_data, keys) ==
    <<[h \in 1..Len(keys) |-> Paragraph(Upper(keys[h]), CENTER)]>>
        \o [j \in 1..Len(section_data.v) |->
               [h \in 1..Len(PresentKey(section_data.v[j], keys)) |->
                   GenericCell(section_data.v[j], PresentKey(section_data.v[j], keys)[h])]]

\* lines 787-795; keys is the order in which the key set is iterated
GenericTableData(section_data, keys) ==
    <<[h \in 1..Len(keys) |-> Paragraph(Upper(keys[h]), CENTER)]>>
        \o [j \in 1..Len(section_data.v) |->
               [h \in 1..Len(keys) |-> GenericCell(section_data.v[j], keys[h])]]

\* lines 798-801
SimpleTableData(section_data) ==
    <<<<Paragraph("Item", CENTER)>>>>
        \o [j \in 1..Len(section_data.v) |->
               <<FormatValue(section_data.v[j], FALSE, IsBool(section_data.v[j]))>>]

\* line 778
FirstHasDealer(section_data) ==
    Len(section_data.v) > 0 /\ HasKey(section_data.v[1], "Dealer")

\* line 776
AllDicts(section_data) == \A j \in 1..Len(section_data.v) : IsDict(section_data.v[j])

\* whether the list is rendered through the union of its records' keys
IsGenericList(section_data) ==
    IsList(section_data) /\ AllDicts(section_data) /\ ~FirstHasDealer(section_data)

\* the cells of a table's rows, row after row
RECURSIVE Flatten(_)
Flatten(rows) == IF Len(rows) = 0 THEN <<>> ELSE Head(rows) \o Flatten(Tail(rows))

\* lines 774-810
ListBlocks(section_data, keys) ==
    LET table_data ==
            IF AllDicts(section_data)
            THEN IF FirstHasDealer(section_data)
                 THEN DealerTableData(section_data)
                 ELSE GenericTableData(section_data, keys)
            ELSE SimpleTableData(section_data)
        raise == FirstRaise(Flatten(Tail(table_data)))
    IN  IF raise # NoResult THEN Failed(<<>>, raise.exc)
        ELSE IF Len(table_data) > 1
        THEN IF Len(table_data[1]) = 0
             THEN Failed(<<>>, "ZeroDivisionError")
             ELSE Done(<<Table(table_data, Len(table_data[1]),
                               GetTableStyle(FALSE, Len(table_data)))>>)
        ELSE Done(<<>>)

\* lines 691-810: the body of the section
SectionBody(section_key, section_data, keys) ==
    IF IsDict(section_data)
    THEN IF HasDamageFormat(section_data)
         THEN DamageBlocks(section_data)
         ELSE KeyValueBlocks(section_key, section_data)
    ELSE IF IsList(section_data)
    THEN ListBlocks(section_data, keys)
    ELSE Done(<<>>)

\* the test without .lower()
NeedsPageBreakCaseSensitive(section_key) == Contains(section_key, "damage")

\* a break before the sections named for damage and for consistency alike
NeedsPageBreakConsistencyToo(section_key) ==
    ContainsAny(Lower(section_key), {"damage", "consistency"})

\* lines 666-668
NeedsPageBreak(section_key) == Contains(Lower(section_key), "damage")

\* lines 672-689
SectionHeader(section_key) ==
    IF section_key \in {"Stickers and Signs Observed", "Vehicle Dashboard and Condition"}
    THEN <<HeaderParagraph(section_key, "SpecialSectionHeader")>>
    ELSE <<HeaderParagraph(section_key, "SectionHeader"), Spacer(1, 4)>>

\* the test without .lower()
NeedsImageGridCaseSensitive(section_key) == Contains(section_key, "vehicle consistency check")

\* lines 815-816
NeedsImageGrid(section_key) == Contains(Lower(section_key), "vehicle consistency check")

\* a skip of the empty dict only
SkipSectionEmptyDictOnly(section_data) == IsDict(section_data) /\ ~Truthy(section_data)

\* lines 663-664
SkipSection(section_data) == ~Truthy(section_data)

\* lines 661-816: one iteration of the loop over report_data.items()
SectionBlocks(section_key, section_data, keys) ==
    IF SkipSection(section_data) THEN Done(<<>>)
    ELSE LET before == (IF NeedsPageBreak(section_key) THEN <<PageBreak>> ELSE <<>>)
                           \o SectionHeader(section_key)
             body == SectionBody(section_key, section_data, keys)
         IN  IF body.exc # "" THEN Failed(before, body.exc)
             ELSE Done(before \o body.blocks \o <<Spacer(1, 12)>>
                           \o (IF NeedsImageGrid(section_key)
                               THEN ImagePlaceholdersGrid ELSE <<>>))

\* the orders in which a set can be iterated
Orders(S) ==
    {f \in [1..Cardinality(S) -> S] : \A a, b \in 1..Cardinality(S) : a # b => f[a] # f[b]}

\* the orders in which `for k in keys` can run over the set of line 787; Python
\* fixes no order for a set of strings
KeyOrders(section_data) ==
    IF Truthy(section_data) /\ IsGenericList(section_data)
    THEN Orders(UnionKeys(section_data))
    ELSE {<<>>}

-----------------------------------------------------------------------------
(* The dedicated section builders *)

\* the style of lines 355-369: gray background and bold font on the header row
\* and on the last row, the second column right-aligned
RepairTableStyle(num_rows) ==
    [gray_rows |-> {0, num_rows - 1},
     bold_rows |-> {0, num_rows - 1},
     right_last_column |-> TRUE]

\* the style of lines 410-422 and 452-464
ValuationTableStyle == [gray_rows |-> {0}, bold_rows |-> {0}, right_last_column |-> TRUE]

NotTotal(e) == e.k # "Total Repair Cost"

\* line 340: the cost cell of an ordinary component
RepairCostCell(cost) ==
    Paragraph(IF IsIntOrFloat(cost) THEN "Rs. " \o FormatComma(cost) ELSE PyStr(cost), RIGHT)

\* the rows in the order of the input, the total where it stands
RepairTableDataInputOrder(repair_costs) ==
    <<<<Plain("Component"), Plain("COST")>>>>
        \o [j \in 1..Len(repair_costs.v) |->
               <<Plain(repair_costs.v[j].k),
                 IF repair_costs.v[j].k = "Total Repair Cost"
                 THEN Paragraph("Rs. " \o FormatComma(repair_costs.v[j].v), RIGHT)
                 ELSE RepairCostCell(repair_costs.v[j].v)>>]

\* lines 325-348: the header row, the components, then the total
RepairTableData(repair_costs) ==
    LET components == SelectSeq(repair_costs.v, NotTotal)
    IN  <<<<Plain("Component"), Plain("COST")>>>>
            \o [j \in 1..Len(components) |->
                   <<Plain(components[j].k), RepairCostCell(components[j].v)>>]
            \o (IF HasKey(repair_costs, "Total Repair Cost")
                THEN <<<<Plain("Total Repair Cost"),
                         Paragraph("Rs. " \o FormatComma(Lookup(repair_costs, "Total Repair Cost")),
                                   RIGHT)>>>>
                ELSE <<>>)

\* _create_repair_costs_section(story, data): what it appends
CreateRepairCostsSection(d) ==
    LET repair_costs == Get(d, "Repair Cost Estimation (INR)", VDict(<<>>))
        before == <<PageBreak, HeaderParagraph("Repair Cost Estimation", "SectionHeader")>>
    IN  IF ~Truthy(repair_costs) THEN Done(before)
        ELSE IF /\ HasKey(repair_costs, "Total Repair Cost")
                /\ ~CommaFormats(Lookup(repair_costs, "Total Repair Cost"))
        THEN Failed(before, CommaError(Lookup(repair_costs, "Total Repair Cost")))
        ELSE LET repair_data == RepairTableData(repair_costs)
             IN  IF Len(repair_data) > 1
                 THEN Done(before \o <<Table(repair_data, 2, RepairTableStyle(Len(repair_data))),
                                       Spacer(1, 8)>>)
                 ELSE Done(before)

\* lines 391-396: the keys of the valuation rows, in the order of the map
ValueKeys ==
    <<"Pre-Accident Value", "Post-Accident Value", "Salvage Value",
      "Estimated Value After Repairs">>

\* lines 388-404; mv is the 'Market Valuation (INR)' dict
ValuationTableData(mv) ==
    LET present == SelectSeq(ValueKeys, LAMBDA key : HasKey(mv, key))
    IN  <<<<Plain("Parameter"), Plain("VALUE")>>>>
            \o [j \in 1..Len(present) |->
                   <<Plain(present[j]),
                     Paragraph("Rs. " \o FormatComma(Lookup(mv, present[j])), RIGHT)>>]

\* line 406: `if valuation_data:`, a list that always holds the header row
ValuationTableEmitted(valuation_data) == Len(valuation_data) > 0

CompleteQuote(quote) == HasKey(quote, "Dealer") /\ HasKey(quote, "Value")

\* lines 437-446; the Dealer of the inputs is a str
QuotesTableData(quotes) ==
    LET complete == SelectSeq(quotes.v, CompleteQuote)
    IN  <<<<Plain("Dealer"), Plain("VALUE")>>>>
            \o [j \in 1..Len(complete) |->
                   <<Paragraph(Lookup(complete[j], "Dealer").v, LEFT),
                     Paragraph("Rs. " \o FormatComma(Lookup(complete[j], "Value")), RIGHT)>>]

\* the first value of a sequence that "{:,}" cannot format, or NoResult
FirstUnformattable(values) ==
    IF \E j \in 1..Len(values) : ~CommaFormats(values[j])
    THEN values[CHOOSE j \in 1..Len(values) :
                   /\ ~CommaFormats(values[j])
                   /\ \A h \in 1..(j - 1) : CommaFormats(values[h])]
    ELSE NoResult

\* _create_market_valuation_section(story, data): what it appends
CreateMarketValuationSection(d) ==
    LET mv == Get(d, "Market Valuation (INR)", VDict(<<>>))
        header == <<HeaderParagraph("Market Valuation", "SectionHeader")>>
        present == SelectSeq(ValueKeys, LAMBDA key : HasKey(mv, key))
        bad == FirstUnformattable([j \in 1..Len(present) |-> Lookup(mv, present[j])])
    IN  IF bad # NoResult THEN Failed(header, CommaError(bad))
        ELSE
        LET valuation_data == ValuationTableData(mv)
            valuation == header \o
                (IF ValuationTableEmitted(valuation_data)
                 THEN <<Table(valuation_data, 2, ValuationTableStyle), Spacer(1, 4)>>
                 ELSE <<>>)
            quotes == Get(mv, "Market Quotes", VList(<<>>))
        IN  IF ~Truthy(quotes) THEN Done(valuation)
            ELSE
            LET heading == valuation \o <<HeaderParagraph("Market Quotes", "SubsectionHeader")>>
                complete == SelectSeq(quotes.v, CompleteQuote)
                badq == FirstUnformattable([j \in 1..Len(complete) |->
                                               Lookup(complete[j], "Value")])
            IN  IF badq # NoResult THEN Failed(heading, CommaError(badq))
                ELSE IF Len(QuotesTableData(quotes)) > 1
                THEN Done(heading \o <<Table(QuotesTableData(quotes), 2, ValuationTableStyle),
                                       Spacer(1, 4)>>)
                ELSE Done(heading)

-----------------------------------------------------------------------------
(* The values the formatter and the walk are run on *)

MaxItems == 2

MaxEntries == 2

MaxSections == 2

\* all sequences over S of length at most n
SeqsUpTo(S, n) == UNION {[1..m -> S] : m \in 0..n}

\* the entry sequences a dict can hold: keys are unique
DistinctKeys(entries) ==
    \A a, b \in 1..Len(entries) : a # b => entries[a].k # entries[b].k

DictsOver(E, n) == {VDict(es) : es \in {x \in SeqsUpTo(E, n) : DistinctKeys(x)}}

IntValues == {VInt(0), VInt(7), VInt(999), VInt(1000), VInt(1500), VInt(1234567),
              VInt(-1000), VInt(-2500000)}

FloatValues == {VFloat(0), VFloat(5), VFloat(12345), VFloat(10000000), VFloat(-15005)}

BoolValues == {VBool(TRUE), VBool(FALSE)}

StrValues == {VStr(""), VStr("Cracked"), VStr("1,500")}

ScalarValues == IntValues \cup FloatValues \cup BoolValues \cup StrValues

\* the entries of the records handed to the formatter
FormatEntries ==
    {Entry("Dealer", VStr("A")),
     Entry("Value", VInt(1500)), Entry("Value", VStr("x")),
     Entry("Observation", VStr("Cracked")),
     Entry("Repair Cost", VInt(1234567)), Entry("Repair Cost", VBool(TRUE)),
     Entry("Note", VStr("ok")), Entry("Note", VInt(7))}

FormatRecords == DictsOver(FormatEntries, MaxEntries)

\* the entries of the records that stand in a list
ItemEntries ==
    {Entry("Dealer", VStr("A")),
     Entry("Value", VInt(1500)), Entry("Value", VStr("x")),
     Entry("Name", VStr("B")),
     Entry("Flag", VBool(TRUE))}

ItemRecords ==
    {VDict(<<>>)} \cup {VDict(<<e>>) : e \in ItemEntries}
        \cup {VDict(<<p[1], p[2]>>) :
                  p \in {q \in ItemEntries \X ItemEntries : q[1].k # q[2].k}}

ItemScalars == {VInt(7), VBool(TRUE), VStr("s")}

FormatLists == {VList(xs) : xs \in SeqsUpTo(ItemRecords \cup ItemScalars, MaxItems)}

FormatInputs == ScalarValues \cup FormatRecords \cup FormatLists

\* the contents of the sections of a whole report
CoreContents ==
    {VDict(<<>>),
     VList(<<>>),
     VDict(<<Entry("Total Repair Cost", VInt(6500)), Entry("Bumper", VInt(5000))>>),
     VDict(<<Entry("Engine", VDict(<<Entry("Observation", VStr("Cracked")),
                                     Entry("Recommendation", VStr("Replace"))>>))>>),
     VDict(<<Entry("Quote", VDict(<<Entry("Dealer", VStr("A")), Entry("Value", VStr("x"))>>))>>),
     VList(<<VDict(<<Entry("Dealer", VStr("A")), Entry("Value", VInt(1500))>>)>>),
     VStr("pending")}

CoreNames ==
    {"Damage Analysis", "PRE-DAMAGE NOTES", "Repair Cost Estimation (INR)",
     "Vehicle Consistency Check", "REAR VEHICLE CONSISTENCY CHECK (2)",
     "Damage Consistency Review"}

CoreSections == {Entry(name, content) : name \in CoreNames, content \in CoreContents}

\* the data argument: with a 'data' key holding the sections, or without one
ReportInputs ==
    {VDict(<<>>)} \cup {VDict(<<Entry("data", rd)>>) : rd \in DictsOver(CoreSections, MaxSections)}

\* the entries of the dict of one section
SectionEntries ==
    {Entry("Engine", VDict(<<Entry("Observation", VStr("Cracked")),
                             Entry("Recommendation", VStr("Replace"))>>)),
     Entry("Engine", VDict(<<Entry("Observation", VStr("Cracked"))>>)),
     Entry("Engine", VDict(<<Entry("Note", VStr("ok"))>>)),
     Entry("Engine", VStr("Cracked")),
     Entry("Engine", VInt(1500)),
     Entry("Bumper", VDict(<<Entry("Recommendation", VStr("Replace"))>>)),
     Entry("Bumper", VDict(<<>>)),
     Entry("Bumper", VInt(5000)),
     Entry("Bumper", VBool(TRUE)),
     Entry("Bumper", VDict(<<Entry("Dealer", VStr("A")), Entry("Value", VStr("x"))>>)),
     Entry("Same Vehicle Detected", VBool(FALSE)),
     Entry("Same Vehicle Detected", VStr("yes")),
     Entry("Same Vehicle Detected", VInt(0)),
     Entry("Total Repair Cost", VInt(6500))}

\* the entries of the records of a section that is a list
WalkItemEntries ==
    {Entry("Dealer", VStr("A")),
     Entry("Value", VInt(1500)),
     Entry("Name", VStr("B")),
     Entry("Name", VDict(<<Entry("Observation", VStr("Cracked"))>>))}

WalkItemRecords ==
    {VDict(<<>>)} \cup {VDict(<<e>>) : e \in WalkItemEntries}
        \cup {VDict(<<p[1], p[2]>>) :
                  p \in {q \in WalkItemEntries \X WalkItemEntries : q[1].k # q[2].k}}

WalkItems == WalkItemRecords \cup {VInt(7), VBool(TRUE), VStr("s")}

ShapeContents ==
    DictsOver(SectionEntries, MaxEntries)
        \cup {VList(xs) : xs \in SeqsUpTo(WalkItems, MaxItems)}

ShapeNames ==
    {"Damage Analysis", "Repair Cost Estimation (INR)", "Stickers and Signs Observed",
     "Market VALUE and resale Price"}

\* a report of one section
ShapeInputs ==
    {VDict(<<Entry("data", VDict(<<Entry(name, content)>>))>>) :
        name \in ShapeNames, content \in ShapeContents}

FileStates == [font : BOOLEAN, logo : BOOLEAN, qr : BOOLEAN]

AllFiles == [font |-> TRUE, logo |-> TRUE, qr |-> TRUE]

NoValue == [t |-> "none", v |-> <<>>]

-----------------------------------------------------------------------------
(* The renderer: images and pages *)

\* Image(filename, width, height) at lines 92 and 130: what the constructors
\* find of the files. reportlab's Image either opens the file at once and
\* raises when it cannot (the try/except of lines 91-125 and 128-172 then gives
\* the fallback), or keeps the name and opens the file when the document is
\* built (its lazy mode): both images are then constructed whatever the files.
ImageOutcomes(f) == {f, [f EXCEPT !.logo = TRUE, !.qr = TRUE]}

\* the story holds an Image whose file cannot be read
ImageMissing(s, f) ==
    \E j \in 1..Len(s) :
        /\ s[j].kind = "HeaderTable"
        /\ \/ s[j].logo_row[1] = "Image" /\ ~f.logo
           \/ s[j].qr_table[1] = "Image" /\ ~f.qr

\* line 940: f"Page {canvas.getPageNumber()} of {doc.page}"
PageNumberText(page_number, doc_page) ==
    "Page " \o NatStr(page_number) \o " of " \o NatStr(doc_page)

\* _add_page_number(canvas, doc), called by the renderer as page p begins:
\* canvas.getPageNumber() and doc.page are both p at that moment
AddPageNumber(p) ==
    [line |-> "dashed",
     company |-> "Sundaravijayam Automobile Services Private Limited",
     page_number |-> PageNumberText(p, p)]

\* page p of the document built from story s: what the page callback drew
\* (onFirstPage and onLaterPages are both _add_page_number, line 829) and whether
\* the header table, the first flowable of the story, is laid out on it
Page(p, s) ==
    [number |-> p,
     footer |-> AddPageNumber(p),
     header |-> p = 1 /\ Len(s) > 0 /\ s[1].kind = "HeaderTable"]

\* every PageBreak of the story starts a new page
MinPages(s) == 1 + Cardinality({j \in 1..Len(s) : s[j] = PageBreak})

MaxExtraPages == 1

\* a block whose height grows with the data: a table, or the image grid
CanOverflow(s) ==
    \E j \in 1..Len(s) : s[j].kind \in {"Table", "LayoutTable", "GridContainer"}

\* the numbers of pages the layout can give: one page more for every PageBreak,
\* and further pages when the blocks do not fit on theirs
PageCounts(s) ==
    MinPages(s)..(MinPages(s) + IF CanOverflow(s) THEN MaxExtraPages ELSE 0)

-----------------------------------------------------------------------------
(* The generator *)

\* __init__ and _setup_custom_styles: the warning logged when the font is missing
SetupLog(f) ==
    IF f.font THEN <<>> ELSE <<"WARNING DejaVuSans font not found, using Helvetica">>

\* _create_header: the warning logged when the QR-code image is missing
HeaderLog(f) ==
    IF f.qr THEN <<>> ELSE <<"WARNING QR code image not found, using text placeholder">>

NoFormatCall ==
    /\ fv_value = NoValue
    /\ fv_align_right = FALSE
    /\ fv_is_boolean = FALSE
    /\ fv_result = NoResult

\* after construction, before generate_report(data, output_dir) is called
InitWith(inputs, fileStates) ==
    /\ NoFormatCall
    /\ files \in fileStates
    /\ data \in inputs
    /\ report_data = NoValue
    /\ story = <<>>
    /\ pos = 0
    /\ pc = "start"
    /\ log = SetupLog(files)
    /\ pages = <<>>

\* the assets are all in place; InitAssets below takes them away
Init == InitWith(ReportInputs, {AllFiles})

\* lines 832-834
ErrorLog(exc) == "ERROR Error generating PDF report: " \o exc

\* data['data'] in place of data.get('data', {}): a KeyError without the key
GenerateReportSubscript ==
    /\ pc = "start"
    /\ IF HasKey(data, "data")
       THEN /\ report_data' = Lookup(data, "data")
            /\ story' = CreateHeader(files)
            /\ log' = log \o HeaderLog(files)
            /\ pc' = "walk"
       ELSE /\ report_data' = report_data
            /\ story' = story
            /\ log' = Append(log, ErrorLog("KeyError"))
            /\ pc' = "raised"
    /\ pos' = 0
    /\ UNCHANGED <<fv_value, fv_align_right, fv_is_boolean, fv_result, files, data, pages>>

\* lines 652-658
GenerateReport ==
    /\ pc = "start"
    /\ report_data' = Get(data, "data", VDict(<<>>))
    /\ \E f \in ImageOutcomes(files) :
          /\ story' = CreateHeader(f)
          /\ log' = log \o HeaderLog(f)
    /\ pos' = 0
    /\ pc' = "walk"
    /\ UNCHANGED <<fv_value, fv_align_right, fv_is_boolean, fv_result, files, data, pages>>

\* a walk that logs the error of a section and goes on to the next one
ProcessSectionSwallow ==
    /\ pc = "walk"
    /\ pos < Len(report_data.v)
    /\ \E keys \in KeyOrders(report_data.v[pos + 1].v) :
        \E step \in {SectionBlocks(report_data.v[pos + 1].k, report_data.v[pos + 1].v, keys)} :
              /\ story' = story \o step.blocks
              /\ log' = IF step.exc = "" THEN log ELSE Append(log, ErrorLog(step.exc))
    /\ pos' = pos + 1
    /\ pc' = "walk"
    /\ UNCHANGED <<fv_value, fv_align_right, fv_is_boolean, fv_result, files, data, pages,
                   report_data>>

\* a walk that puts the blocks of each section before those of the sections
\* walked earlier
ProcessSectionNewestFirst ==
    /\ pc = "walk"
    /\ pos < Len(report_data.v)
    /\ \E keys \in KeyOrders(report_data.v[pos + 1].v) :
        \E step \in {SectionBlocks(report_data.v[pos + 1].k, report_data.v[pos + 1].v, keys)} :
              /\ story' = SubSeq(story, 1, 2) \o step.blocks \o SubSeq(story, 3, Len(story))
              /\ pos' = IF step.exc = "" THEN pos + 1 ELSE pos
              /\ pc' = IF step.exc = "" THEN "walk" ELSE "raised"
              /\ log' = IF step.exc = "" THEN log ELSE Append(log, ErrorLog(step.exc))
    /\ UNCHANGED <<fv_value, fv_align_right, fv_is_boolean, fv_result, files, data, pages,
                   report_data>>

\* a walk that hands the repair-cost record to _create_repair_costs_section
ProcessSectionDedicated ==
    /\ pc = "walk"
    /\ pos < Len(report_data.v)
    /\ \E keys \in KeyOrders(report_data.v[pos + 1].v) :
        \E step \in {IF /\ report_data.v[pos + 1].k = "Repair Cost Estimation (INR)"
                        /\ IsDict(report_data.v[pos + 1].v)
                     THEN CreateRepairCostsSection(report_data)
                     ELSE SectionBlocks(report_data.v[pos + 1].k, report_data.v[pos + 1].v,
                                        keys)} :
              /\ story' = story \o step.blocks
              /\ pos' = IF step.exc = "" THEN pos + 1 ELSE pos
              /\ pc' = IF step.exc = "" THEN "walk" ELSE "raised"
              /\ log' = IF step.exc = "" THEN log ELSE Append(log, ErrorLog(step.exc))
    /\ UNCHANGED <<fv_value, fv_align_right, fv_is_boolean, fv_result, files, data, pages,
                   report_data>>

\* lines 661-816: one iteration of the loop; an exception leaves through 832-834
ProcessSection ==
    /\ pc = "walk"
    /\ pos < Len(report_data.v)
    /\ \E keys \in KeyOrders(report_data.v[pos + 1].v) :
        \E step \in {SectionBlocks(report_data.v[pos + 1].k, report_data.v[pos + 1].v, keys)} :
              /\ story' = story \o step.blocks
              /\ pos' = IF step.exc = "" THEN pos + 1 ELSE pos
              /\ pc' = IF step.exc = "" THEN "walk" ELSE "raised"
              /\ log' = IF step.exc = "" THEN log ELSE Append(log, ErrorLog(step.exc))
    /\ UNCHANGED <<fv_value, fv_align_right, fv_is_boolean, fv_result, files, data, pages,
                   report_data>>

\* lines 818-834: doc.build lays the story out on its pages and calls
\* _add_page_number on each; the build fails when an image of the story cannot
\* be opened, and can fail on the output file
BuildDocument ==
    /\ pc = "walk"
    /\ pos = Len(report_data.v)
    /\ \E built \in (IF ImageMissing(story, files) THEN {FALSE} ELSE BOOLEAN) :
        \E n \in PageCounts(story) :
          /\ pc' = IF built THEN "returned" ELSE "raised"
          /\ pages' = IF built THEN [p \in 1..n |-> Page(p, story)] ELSE <<>>
          /\ log' = IF built THEN log ELSE Append(log, ErrorLog("build failed"))
    /\ UNCHANGED <<fv_value, fv_align_right, fv_is_boolean, fv_result, files, data,
                   report_data, story, pos>>

Next == GenerateReport \/ ProcessSection \/ BuildDocument

Spec == Init /\ [][Next]_vars

\* generate_report on a report of one section, of every shape
InitShapes == InitWith(ShapeInputs, {AllFiles})

SpecShapes == InitShapes /\ [][Next]_vars

\* the reports of at most one section
AssetInputs ==
    {d \in ReportInputs : \A j \in 1..Len(d.v) : Len(d.v[j].v.v) <= 1}

\* generate_report with any of the font, the logo and the QR-code image missing
InitAssets == InitWith(AssetInputs, FileStates)

SpecAssets == InitAssets /\ [][Next]_vars

-----------------------------------------------------------------------------
(* The dedicated builders called on their own, each on an empty story *)

RepairEntries ==
    {Entry("Bumper", VInt(5000)), Entry("Bumper", VStr("on request")),
     Entry("Door", VInt(1234567)),
     Entry("Total Repair Cost", VInt(6500)), Entry("Total Repair Cost", VStr("TBD"))}

Quote(dealer, value) == VDict(<<Entry("Dealer", VStr(dealer)), Entry("Value", value)>>)

MarketEntries ==
    {Entry("Pre-Accident Value", VInt(500000)),
     Entry("Salvage Value", VInt(50000)), Entry("Salvage Value", VStr("n/a")),
     Entry("Owner", VStr("X")),
     Entry("Market Quotes", VList(<<>>)),
     Entry("Market Quotes", VList(<<Quote("A", VInt(1500))>>)),
     Entry("Market Quotes", VList(<<VDict(<<Entry("Dealer", VStr("A"))>>)>>)),
     Entry("Market Quotes", VList(<<Quote("A", VStr("x"))>>))}

BuilderInputs ==
    {VDict(<<>>)}
        \cup {VDict(<<Entry("Repair Cost Estimation (INR)", r)>>) :
                 r \in DictsOver(RepairEntries, MaxEntries)}
        \cup {VDict(<<Entry("Market Valuation (INR)", m)>>) :
                 m \in DictsOver(MarketEntries, MaxEntries)}

InitBuilders ==
    /\ NoFormatCall
    /\ files \in FileStates
    /\ data \in BuilderInputs
    /\ report_data = NoValue
    /\ story = <<>>
    /\ pos = 0
    /\ pc = "builders"
    /\ log = SetupLog(files)
    /\ pages = <<>>

\* a builder called as builder(story, data); an exception goes to the caller
CallBuilder(name, result) ==
    /\ pc = "builders"
    /\ story' = story \o result.blocks
    /\ pc' = IF result.exc = "" THEN name ELSE "raised"
    /\ UNCHANGED <<fv_value, fv_align_right, fv_is_boolean, fv_result, files, data, pages,
                   report_data, pos, log>>

CallCreateHeader ==
    /\ pc = "builders"
    /\ \E f \in ImageOutcomes(files) :
          /\ story' = story \o CreateHeader(f)
          /\ log' = log \o HeaderLog(f)
    /\ pc' = "_create_header"
    /\ UNCHANGED <<fv_value, fv_align_right, fv_is_boolean, fv_result, files, data, pages,
                   report_data, pos>>

CallCreateRepairCostsSection ==
    CallBuilder("_create_repair_costs_section", CreateRepairCostsSection(data))

CallCreateMarketValuationSection ==
    CallBuilder("_create_market_valuation_section", CreateMarketValuationSection(data))

NextBuilders ==
    \/ CallCreateHeader
    \/ CallCreateRepairCostsSection
    \/ CallCreateMarketValuationSection

SpecBuilders == InitBuilders /\ [][NextBuilders]_vars

-----------------------------------------------------------------------------
(* The formatter called on its own *)

InitFormat ==
    /\ fv_value \in FormatInputs
    /\ fv_align_right \in BOOLEAN
    /\ fv_is_boolean \in BOOLEAN
    /\ fv_result = NoResult
    /\ files = AllFiles
    /\ data = NoValue
    /\ report_data = NoValue
    /\ story = <<>>
    /\ pos = 0
    /\ pc = "format"
    /\ log = <<>>
    /\ pages = <<>>

CallFormatValue ==
    /\ pc = "format"
    /\ fv_result' = FormatValue(fv_value, fv_align_right, fv_is_boolean)
    /\ pc' = "formatted"
    /\ UNCHANGED <<fv_value, fv_align_right, fv_is_boolean, files, data, pages, report_data,
                   story, pos, log>>

NextFormat == CallFormatValue

SpecFormat == InitFormat /\ [][NextFormat]_vars

-----------------------------------------------------------------------------
(* Reading a number back from its text *)

\* s.replace(",", "")
RECURSIVE RemoveCommas(_)
RemoveCommas(s) ==
    IF s = "" THEN ""
    ELSE (IF Head(s) = "," THEN "" ELSE Head(s)) \o RemoveCommas(Tail(s))

IsDigit(c) == \E d \in 0..9 : Digit(d) = c

DigitValue(c) == CHOOSE d \in 0..9 : Digit(d) = c

\* int(s) for a string of digits
RECURSIVE ParseNat(_)
ParseNat(s) ==
    IF s = "" THEN 0
    ELSE 10 * ParseNat(SubSeq(s, 1, Len(s) - 1)) + DigitValue(SubSeq(s, Len(s), Len(s)))

AllDigits(s) == s # "" /\ \A j \in 1..Len(s) : IsDigit(SubSeq(s, j, j))

\* int(s) or float(s): an optional "-", digits, and for a float "." and one digit
ParseNumber(s) ==
    LET neg  == s # "" /\ Head(s) = "-"
        body == IF neg THEN Tail(s) ELSE s
        sgn  == IF neg THEN -1 ELSE 1
    IN  IF Len(body) > 2 /\ SubSeq(body, Len(body) - 1, Len(body) - 1) = "."
        THEN VFloat(sgn * (10 * ParseNat(SubSeq(body, 1, Len(body) - 2))
                              + DigitValue(SubSeq(body, Len(body), Len(body)))))
        ELSE VInt(sgn * ParseNat(body))

\* the integer part of a grouped number: its digits, without sign and fraction
IntegerPart(s) ==
    LET body == IF s # "" /\ Head(s) = "-" THEN Tail(s) ELSE s
    IN  IF Len(body) > 2 /\ SubSeq(body, Len(body) - 1, Len(body) - 1) = "."
        THEN SubSeq(body, 1, Len(body) - 2)
        ELSE body

\* commas stand exactly before every full group of three digits, counted from the
\* right of the integer part, and nowhere else
ThousandsGrouped(s) ==
    LET ip == IntegerPart(s)
    IN  /\ ip # ""
        /\ \A j \in 1..Len(ip) :
              IF (Len(ip) - j) % 4 = 3 THEN SubSeq(ip, j, j) = ","
              ELSE IsDigit(SubSeq(ip, j, j))
        /\ SubSeq(ip, 1, 1) # ","

-----------------------------------------------------------------------------
(* The formatter's claims *)

Formatted == pc = "formatted"

\* C1: a native boolean, or any value passed with is_boolean = true, is
\* rendered as exactly "Yes" or "No", for both settings of align_right.
C1_BooleanIsYesNo ==
    (Formatted /\ (IsBool(fv_value) \/ fv_is_boolean)) =>
        /\ fv_result.kind = "Paragraph"
        /\ fv_result.text \in {"Yes", "No"}

\* C2: a numeric, non-boolean value passed with is_boolean = false is rendered
\* as "Rs. " and its thousands-grouped text, right-aligned, when align_right is
\* set, and as the thousands-grouped text alone, left-aligned, otherwise; the
\* grouped text reads back as the value and formats again to the same cell.
C2_MoneyFormat ==
    (Formatted /\ fv_value.t \in {"int", "float"} /\ ~fv_is_boolean) =>
        /\ fv_result.kind = "Paragraph"
        /\ LET text    == fv_result.text
               marked  == Len(text) >= 4 /\ SubSeq(text, 1, 4) = "Rs. "
               grouped == IF fv_align_right THEN SubSeq(text, 5, Len(text)) ELSE text
           IN  /\ marked = fv_align_right
               /\ fv_result.alignment = (IF fv_align_right THEN RIGHT ELSE LEFT)
               /\ ThousandsGrouped(grouped)
               /\ ParseNumber(RemoveCommas(grouped)) = fv_value
               /\ FormatValue(ParseNumber(RemoveCommas(grouped)), fv_align_right, FALSE)
                      = fv_result

C2_Witness ==
    /\ Formatted
    /\ fv_value = VInt(1234567)
    /\ fv_align_right
    /\ ~fv_is_boolean
    /\ fv_result = Paragraph("Rs. 1,234,567", RIGHT)

\* C3: the formatter returns a result for every value and every combination of
\* align_right and is_boolean; it never raises.
C3_FormatterTotal == Formatted => fv_result.kind # "raise"

-----------------------------------------------------------------------------
(* The walk's claims: what the story holds *)

\* the report has one section and the walk is past it
OneSectionWalked == report_data # NoValue /\ Len(report_data.v) = 1 /\ pos = 1

SectionKey == report_data.v[1].k

SectionData == report_data.v[1].v

\* the blocks the sections gave: the story after the header table and its spacer
SectionOutput == SubSeq(story, 3, Len(story))

IsDataTable(block) == block.kind \in {"Table", "LayoutTable"}

TableOf(block) == IF block.kind = "LayoutTable" THEN block.table ELSE block

\* the data tables of the story, in order
StoryTables ==
    LET blocks == SelectSeq(story, IsDataTable)
    IN  [j \in 1..Len(blocks) |-> TableOf(blocks[j])]

IsDamageRecord(value) ==
    IsDict(value) /\ (HasKey(value, "Observation") \/ HasKey(value, "Recommendation"))

DamageShape(content) ==
    IsDict(content) /\ \E j \in 1..Len(content.v) : IsDamageRecord(content.v[j].v)

DamageHeader == <<Plain("Component"), Plain("OBSERVATION"), Plain("RECOMMENDATION")>>

\* the text of a field of an entry's value, "N/A" when there is no such field
FieldOrNA(value, field) ==
    IF IsDict(value) /\ HasKey(value, field) THEN Lookup(value, field).v ELSE "N/A"

ExpectedDamageRow(e) ==
    <<Paragraph(e.k, LEFT),
      Paragraph(FieldOrNA(e.v, "Observation"), LEFT),
      Paragraph(FieldOrNA(e.v, "Recommendation"), LEFT)>>

\* the story's one table is the 3-column table with one row for each of entries
DamageTableFor(entries) ==
    /\ Len(StoryTables) = 1
    /\ StoryTables[1].ncols = 3
    /\ StoryTables[1].data =
           <<DamageHeader>> \o [j \in 1..Len(entries) |-> ExpectedDamageRow(entries[j])]

\* C4: a section in which at least one value is a record with an
\* 'Observation' or 'Recommendation' gives the 3-column table with exactly one
\* data row per entry of the section, in input order.
C4_DamageRowPerEntry ==
    (OneSectionWalked /\ DamageShape(SectionData)) => DamageTableFor(SectionData.v)

RecordList(content) ==
    IsList(content) /\ Len(content.v) > 0 /\ \A j \in 1..Len(content.v) : IsDict(content.v[j])

AllKeys(content) ==
    UNION {{content.v[j].v[h].k : h \in 1..Len(content.v[j].v)} : j \in 1..Len(content.v)}

HeaderTexts(table) == {table.data[1][h].text : h \in 1..Len(table.data[1])}

\* the column of a table whose header cell shows key
ColumnOf(table, key) ==
    CHOOSE h \in 1..Len(table.data[1]) : Upper(table.data[1][h].text) = Upper(key)

\* the table has one column per key of the records, one full row per record, and
\* "N/A" where a record lacks the key
UnionTable(table, content) ==
    /\ Len(table.data[1]) = Cardinality(AllKeys(content))
    /\ {Upper(t) : t \in HeaderTexts(table)} = {Upper(key) : key \in AllKeys(content)}
    /\ Len(table.data) = 1 + Len(content.v)
    /\ \A j \in 1..Len(content.v) :
          /\ Len(table.data[j + 1]) = Cardinality(AllKeys(content))
          /\ \A key \in AllKeys(content) :
                ~HasKey(content.v[j], key) =>
                    table.data[j + 1][ColumnOf(table, key)] = Paragraph("N/A", LEFT)

\* C5: a section that is a non-empty sequence of records gives a table whose
\* header columns are the union of the keys of all records, with one row per
\* record, every row of that width, and "N/A" for a key a record lacks.
C5_UnionOfKeys ==
    (OneSectionWalked /\ RecordList(SectionData)) =>
        /\ Len(StoryTables) = 1
        /\ UnionTable(StoryTables[1], SectionData)

DealerHeader == <<Plain("Dealer"), Plain("VALUE")>>

\* C6: the 2-column (Dealer, VALUE) table is emitted if and only if every
\* record has both a 'Dealer' and a 'Value' field; otherwise the union-of-keys
\* table is emitted.
C6_DealerTableIffAllComplete ==
    (OneSectionWalked /\ RecordList(SectionData)) =>
        /\ Len(StoryTables) = 1
        /\ IF \A j \in 1..Len(SectionData.v) :
                  HasKey(SectionData.v[j], "Dealer") /\ HasKey(SectionData.v[j], "Value")
           THEN StoryTables[1].data[1] = DealerHeader
           ELSE StoryTables[1].data[1] # DealerHeader /\ UnionTable(StoryTables[1], SectionData)

\* the records of a section: each is to give a row
RecordsOf(content) ==
    IF IsDict(content) THEN SelectSeq(content.v, LAMBDA e : IsDict(e.v))
    ELSE IF RecordList(content) THEN content.v
    ELSE <<>>

\* C7: every table of the story has a header row and every data row has as many
\* cells as the header row (and the table as many column widths); every record
\* of a walked section has its row, a missing field filled in, never a shorter
\* row or no row.
C7_TableShape ==
    /\ \A t \in 1..Len(StoryTables) :
          /\ Len(StoryTables[t].data) >= 1
          /\ Len(StoryTables[t].data[1]) = StoryTables[t].ncols
          /\ \A r \in 1..Len(StoryTables[t].data) :
                Len(StoryTables[t].data[r]) = Len(StoryTables[t].data[1])
    /\ (OneSectionWalked /\ Len(RecordsOf(SectionData)) > 0) =>
          /\ Len(StoryTables) = 1
          /\ Len(StoryTables[1].data) >= 1 + Len(RecordsOf(SectionData))
          /\ (DamageShape(SectionData) \/ RecordList(SectionData)) =>
                Len(StoryTables[1].data) = 1 + Len(RecordsOf(SectionData))

C7_Witness ==
    /\ OneSectionWalked
    /\ SectionData = VList(<<VDict(<<Entry("Name", VStr("B"))>>),
                             VDict(<<Entry("Value", VInt(1500))>>)>>)
    /\ Len(StoryTables) = 1
    /\ Len(StoryTables[1].data) = 3
    /\ \A r \in 1..3 : Len(StoryTables[1].data[r]) = 2
    /\ \E h \in 1..2 : StoryTables[1].data[2][h] = Paragraph("N/A", LEFT)

EmptyContent(content) == (IsDict(content) \/ IsList(content)) /\ Len(content.v) = 0

\* the walk stands before a section whose content is an empty record or sequence
AtEmptySection ==
    /\ pc = "walk"
    /\ pos < Len(report_data.v)
    /\ EmptyContent(report_data.v[pos + 1].v)

\* C9: the step over a section whose content is an empty record or an empty
\* sequence appends nothing to the story (and raises nothing).
C9_EmptySectionSkipped ==
    [][AtEmptySection => (story' = story /\ pc' = "walk")]_vars

\* both kinds of empty section walked, and the story is the header alone
C9_Witness ==
    /\ pc = "walk"
    /\ pos = 2
    /\ report_data.v[1].v = VList(<<>>)
    /\ report_data.v[2].v = VDict(<<>>)
    /\ story = CreateHeader(files)

IsSectionHeader(block) ==
    block.kind = "Paragraph" /\ block.style \in {"SectionHeader", "SpecialSectionHeader"}

NamesDamage(name) == Contains(Lower(name), "damage")

\* the sections walked so far that were not skipped, the one that raised included
Rendered(j) ==
    /\ report_data # NoValue
    /\ j \in 1..Len(report_data.v)
    /\ Truthy(report_data.v[j].v)
    /\ j <= pos \/ (j = pos + 1 /\ pc = "raised")

\* C10: every rendered section has its header block; a page break stands
\* immediately before the header of a section whose name contains "damage" in
\* any letter case, before no other header, and nowhere else in the story.
C10_DamagePageBreak ==
    /\ \A j \in 1..Len(report_data.v) :
          Rendered(j) =>
              \E h \in 1..Len(story) :
                  IsSectionHeader(story[h]) /\ story[h].text = report_data.v[j].k
    /\ \A h \in 1..Len(story) :
          /\ IsSectionHeader(story[h]) =>
                (NamesDamage(story[h].text) <=> (h > 1 /\ story[h - 1] = PageBreak))
          /\ story[h] = PageBreak =>
                (h < Len(story) /\ IsSectionHeader(story[h + 1]))

\* a damage section in upper case after another section: the break is in between
C10_Witness ==
    /\ pc = "walk"
    /\ pos = 2
    /\ report_data.v[1].k = "Repair Cost Estimation (INR)"
    /\ report_data.v[2].k = "PRE-DAMAGE NOTES"
    /\ \E h \in 2..Len(story) :
          /\ story[h - 1] = PageBreak
          /\ story[h] = HeaderParagraph("PRE-DAMAGE NOTES", "SectionHeader")
    /\ Cardinality({h \in 1..Len(story) : story[h] = PageBreak}) = 1

-----------------------------------------------------------------------------
(* The image grid, the order of the sections, the missing 'data' key *)

\* the places of the image grids in a sequence of blocks
Grids(blocks) == {j \in 1..Len(blocks) : blocks[j].kind = "GridContainer"}

\* two rows of two placeholder drawings, the four of one size
IsTwoByTwoGrid(block) ==
    /\ block.kind = "GridContainer"
    /\ Len(block.rows) = 2
    /\ \A r \in 1..2 :
          /\ Len(SelectSeq(block.rows[r], LAMBDA c : c.kind = "Drawing")) = 2
          /\ \A c \in 1..Len(block.rows[r]) :
                block.rows[r][c].kind = "Drawing" =>
                    /\ block.rows[r][c].width = block.rows[1][1].width
                    /\ block.rows[r][c].height = block.rows[1][1].height

\* the walk is over: every section of the input has had its turn
WalkOver == pc = "walk" /\ pos = Len(report_data.v)

\* the walk stands before a section
AtSection == pc = "walk" /\ pos < Len(report_data.v)

\* C11 as stated: once the walk is over the story holds one image grid for
\* each section named "vehicle consistency check" (in any letter case),
\* whatever the section's content, and no other grid.
C11_GridForEveryConsistencySection ==
    WalkOver =>
        Cardinality(Grids(story)) =
            Cardinality({j \in 1..pos :
                            Lower(report_data.v[j].k) = "vehicle consistency check"})

\* C11 amended: the step over a section appends the 2x2 grid, as the last
\* blocks of the section right after its closing spacer, exactly when the
\* section's name contains "vehicle consistency check" in any letter case, its
\* content is not empty and the section is rendered without an error; the step
\* over any other section, an empty one included, appends no grid.
C11_GridAfterNonEmptyConsistencySection ==
    [][AtSection =>
          LET name == report_data.v[pos + 1].k
              content == report_data.v[pos + 1].v
              appended == SubSeq(story', Len(story) + 1, Len(story'))
              n == Len(appended)
          IN  IF /\ Contains(Lower(name), "vehicle consistency check")
                 /\ Truthy(content)
                 /\ pc' = "walk"
              THEN /\ n >= 4
                   /\ Grids(appended) = {n - 1}
                   /\ IsTwoByTwoGrid(appended[n - 1])
                   /\ appended[n - 3] = Spacer(1, 12)
                   /\ appended[n - 2] = Spacer(1, 15)
                   /\ appended[n] = Spacer(1, 15)
              ELSE Grids(appended) = {}]_vars

\* a consistency section with content and then an empty one: one grid, at the
\* end of the first
C11_Witness ==
    /\ pc = "walk"
    /\ pos = 2
    /\ report_data.v[1].k = "REAR VEHICLE CONSISTENCY CHECK (2)"
    /\ report_data.v[1].v = VStr("pending")
    /\ report_data.v[2].k = "Vehicle Consistency Check"
    /\ report_data.v[2].v = VDict(<<>>)
    /\ Grids(story) = {Len(story) - 1}

\* the sections the walk has reached: those walked, and the one that raised
Reached == IF pc = "raised" /\ pos < Len(report_data.v) THEN pos + 1 ELSE pos

\* the names of the reached sections that are not skipped, in input order
RenderedNames ==
    LET reached == SubSeq(report_data.v, 1, Reached)
        shown == SelectSeq(reached, LAMBDA e : Truthy(e.v))
    IN  [j \in 1..Len(shown) |-> shown[j].k]

\* the texts of the section headers of the story, in the story's order
HeaderNames ==
    LET headers == SelectSeq(story, IsSectionHeader)
    IN  [j \in 1..Len(headers) |-> headers[j].text]

\* the blocks of the first n sections, section after section in input order
\* (no section of these reports is a list iterated through a set of keys)
RECURSIVE BlocksInOrder(_)
BlocksInOrder(n) ==
    IF n = 0 THEN <<>>
    ELSE BlocksInOrder(n - 1)
             \o SectionBlocks(report_data.v[n].k, report_data.v[n].v, <<>>).blocks

\* C12: the page-header block is the first block of the story; the section
\* headers stand in the story in the order of their sections in the input; and
\* the story is the header blocks followed by the blocks of each non-skipped
\* section as a whole, section after section in input order.
C12_SectionOrderPreserved ==
    (pc # "start") =>
        /\ story[1].kind = "HeaderTable"
        /\ \A j \in 2..Len(story) : story[j].kind # "HeaderTable"
        /\ HeaderNames = RenderedNames
        /\ story = SubSeq(story, 1, 2) \o BlocksInOrder(Reached)

\* two sections with content walked: the blocks of the first, then the page
\* break and the header of the second
C12_Witness ==
    /\ pc = "walk"
    /\ pos = 2
    /\ HeaderNames = <<"Repair Cost Estimation (INR)", "Damage Analysis">>
    /\ report_data.v[1].v = VList(<<VDict(<<Entry("Dealer", VStr("A")),
                                           Entry("Value", VInt(1500))>>)>>)
    /\ \E h \in 4..Len(story) :
          /\ story[h] = PageBreak
          /\ story[h - 1] = Spacer(1, 12)
          /\ story[h - 2].kind = "Table"
          /\ story[h + 1] = HeaderParagraph("Damage Analysis", "SectionHeader")

\* the data argument has no 'data' key
NoDataKey == IsDict(data) /\ ~HasKey(data, "data")

\* the renderer's own failure is the last thing logged
RendererFailed ==
    Len(log) > 0 /\ log[Len(log)] = ErrorLog("build failed")

\* C13: without a 'data' key the walk has nothing to do and raises nothing: the
\* story handed to the renderer is the header table and its spacer, and the
\* only failure there can be is the renderer's own.
C13_NoDataKeyHeaderOnly ==
    (NoDataKey /\ pc # "start") =>
        /\ Len(story) = 2
        /\ story[1].kind = "HeaderTable"
        /\ story[2] = Spacer(1, 15)
        /\ pos = 0
        /\ pc \in {"walk", "returned", "raised"}
        /\ pc = "raised" => RendererFailed

\* generate_report returned, for an input without 'data'
C13_Witness ==
    /\ NoDataKey
    /\ pc = "returned"
    /\ Len(pages) >= 1
    /\ Len(story) = 2
    /\ story[1].kind = "HeaderTable"

-----------------------------------------------------------------------------
(* The dedicated repair-cost builder *)

\* _create_repair_costs_section(story, data) has returned
RepairBuilt == pc = "_create_repair_costs_section"

\* the record the builder reads
RepairCosts == Get(data, "Repair Cost Estimation (INR)", VDict(<<>>))

\* the names in the first column of a table's data rows, top to bottom
RowNames(table) == [j \in 1..(Len(table.data) - 1) |-> table.data[j + 1][1].text]

\* the keys of the record other than the total, in input order
ComponentNames ==
    LET others == SelectSeq(RepairCosts.v, LAMBDA e : e.k # "Total Repair Cost")
    IN  [j \in 1..Len(others) |-> others[j].k]

\* C14: for a record with a 'Total Repair Cost' key, wherever the key stands,
\* the emitted table lists the other components first, in input order, and the
\* 'Total Repair Cost' row once, as the last row.
C14_TotalRowLast ==
    (RepairBuilt /\ HasKey(RepairCosts, "Total Repair Cost")) =>
        /\ Len(StoryTables) = 1
        /\ RowNames(StoryTables[1]) = ComponentNames \o <<"Total Repair Cost">>

\* the total stands first in the input and last in the table
C14_Witness ==
    /\ RepairBuilt
    /\ Len(RepairCosts.v) = 2
    /\ RepairCosts.v[1].k = "Total Repair Cost"
    /\ Len(StoryTables) = 1
    /\ RowNames(StoryTables[1]) = <<RepairCosts.v[2].k, "Total Repair Cost">>

\* the data rows of a repair-cost table that get the bold font or the gray
\* background; row 0 of a table style is the header row
EmphasisedRows(table) ==
    {r \in 1..(Len(table.data) - 1) :
        r \in table.style.bold_rows \/ r \in table.style.gray_rows}

\* C15: in every emitted repair-cost table the data row with the bold font and
\* the shaded background is the 'Total Repair Cost' row; no component row has
\* that styling.
C15_OnlyTotalRowEmphasised ==
    (RepairBuilt /\ Len(StoryTables) = 1) =>
        \A r \in EmphasisedRows(StoryTables[1]) :
            StoryTables[1].data[r + 1][1].text = "Total Repair Cost"

-----------------------------------------------------------------------------
(* Failures *)

\* a message logged with logging.error
IsErrorEntry(message) == Len(message) >= 6 /\ SubSeq(message, 1, 6) = "ERROR "

ErrorEntries == {j \in 1..Len(log) : IsErrorEntry(log[j])}

\* the exception of the section the walk stands before ("" if it has none)
SectionError ==
    IF pos < Len(report_data.v)
    THEN SectionBlocks(report_data.v[pos + 1].k, report_data.v[pos + 1].v, <<>>).exc
    ELSE ""

\* what holds of the log and the pages wherever generate_report stands
FailureLogged ==
    /\ pc \in {"start", "walk", "returned"} => ErrorEntries = {}
    /\ pc = "returned" => Len(pages) >= 1
    /\ pc = "raised" =>
          /\ ErrorEntries = {Len(log)}
          /\ pages = <<>>
          /\ IF pos < Len(report_data.v)
             THEN SectionError # "" /\ log[Len(log)] = ErrorLog(SectionError)
             ELSE RendererFailed

\* C16: a failure of a step of generate_report (a section's blocks, a value's
\* formatting, the renderer's build) is logged once, at error severity with
\* the error's message, and the error goes to the caller: the call that failed
\* returns no path, then or later, and a call that returns has logged no error;
\* the walk does not go past a section that raised.
C16_FailurePropagates ==
    /\ []FailureLogged
    /\ [][/\ pc = "raised" => pc' = "raised"
          /\ (pc = "walk" /\ SectionError # "") => pc' = "raised"]_vars

\* a section raised after its header was appended: logged, and the call is over
C16_Witness ==
    /\ pc = "raised"
    /\ pos = 1
    /\ Len(report_data.v) = 2
    /\ SectionError = "ValueError"
    /\ log = <<ErrorLog("ValueError")>>
    /\ IsSectionHeader(story[Len(story)]) \/ story[Len(story)] = Spacer(1, 4)

-----------------------------------------------------------------------------
(* Missing assets *)

\* the header table of the story
HeaderBlock == story[1]

\* C17: whichever of the font, the logo and the QR-code image is missing, the
\* header row has its lockup cell and its QR cell, each missing image is
\* replaced by its fallback (the company name alone, the "QR" text box), the
\* missing font is only warned about, and once the blocks are assembled the
\* renderer can build the document: the missing asset does not abort the call.
C17_MissingAssetsFallBack ==
    (pc # "start") =>
        /\ HeaderBlock.kind = "HeaderTable"
        /\ HeaderBlock.logo_row =
               IF files.logo THEN <<"Image", "ReadyAssist">> ELSE <<"ReadyAssist">>
        /\ HeaderBlock.qr_table = IF files.qr THEN <<"Image">> ELSE <<"QR">>
        /\ ~files.font => log[1] = "WARNING DejaVuSans font not found, using Helvetica"
        /\ WalkOver => ENABLED (BuildDocument /\ pc' = "returned")

-----------------------------------------------------------------------------
(* The pages *)

\* generate_report has returned the path of the document
Returned == pc = "returned"

\* C18: on every page p of a document of N pages the footer reads
\* "Page p of N", N being the number of pages of the whole document.
C18_FooterPageOfTotal ==
    Returned =>
        \A p \in 1..Len(pages) :
            pages[p].footer.page_number =
                "Page " \o NatStr(p) \o " of " \o NatStr(Len(pages))

\* C19: the header block is drawn on the first page and on every later page
\* of the document.
C19_HeaderOnEveryPage ==
    Returned => \A p \in 1..Len(pages) : pages[p].header

-----------------------------------------------------------------------------
(* The key-value shape *)

\* a record with entries, none of them a record with 'Observation' or
\* 'Recommendation'
KeyValueShape(content) ==
    IsDict(content) /\ Len(content.v) > 0 /\ ~DamageShape(content)

\* the section's name has one of the money words, in any letter case
MoneyName(name) ==
    \E word \in {"cost", "price", "value", "estimation"} : Contains(Lower(name), word)

\* an int or a float that is not a bool
IsNumber(value) == value.t \in {"int", "float"}

\* the cell starts with the currency marker
HasMarker(cell) ==
    cell.kind = "Paragraph" /\ Len(cell.text) >= 4 /\ SubSeq(cell.text, 1, 4) = "Rs. "

MoneyCell(cell) == HasMarker(cell) /\ cell.alignment = RIGHT

\* the cell shows no trace of the section's name: no marker and no right alignment
PlainCell(cell) == ~HasMarker(cell) /\ cell.alignment # RIGHT

\* the table of the section has one row per key, in input order
OneRowPerKey ==
    /\ Len(StoryTables) = 1
    /\ Len(StoryTables[1].data) = 1 + Len(SectionData.v)
    /\ \A j \in 1..Len(SectionData.v) :
          StoryTables[1].data[j + 1][1] = Paragraph(SectionData.v[j].k, LEFT)

\* the value cell of the row of the j-th key
ValueCell(j) == StoryTables[1].data[j + 1][2]

BooleanLabel(key) == Lower(key) = "same vehicle detected"

\* C20 as stated: in a key-value section the table has one row per key in
\* input order, every numeric non-boolean value has the "Rs. " marker and the
\* right alignment exactly when the section's name has a money word, and a
\* non-numeric value never has them.
C20_MoneyAlignment ==
    (OneSectionWalked /\ KeyValueShape(SectionData)) =>
        /\ OneRowPerKey
        /\ \A j \in 1..Len(SectionData.v) :
              IF IsNumber(SectionData.v[j].v)
              THEN IF MoneyName(SectionKey) THEN MoneyCell(ValueCell(j))
                                            ELSE PlainCell(ValueCell(j))
              ELSE PlainCell(ValueCell(j))

\* C20 amended: ... every numeric non-boolean value whose key is not "same
\* vehicle detected" (in any letter case) has the marker and the right
\* alignment exactly when the section's name has a money word; the value of
\* the key "same vehicle detected" is shown as "Yes" or "No", left-aligned,
\* whatever its type and whatever the section; a non-numeric value never has
\* the marker or the right alignment.
C20_MoneyAlignmentButBooleanLabel ==
    (OneSectionWalked /\ KeyValueShape(SectionData)) =>
        /\ OneRowPerKey
        /\ \A j \in 1..Len(SectionData.v) :
              IF BooleanLabel(SectionData.v[j].k)
              THEN ValueCell(j) \in {Paragraph("Yes", LEFT), Paragraph("No", LEFT)}
              ELSE IF IsNumber(SectionData.v[j].v)
              THEN IF MoneyName(SectionKey) THEN MoneyCell(ValueCell(j))
                                            ELSE PlainCell(ValueCell(j))
              ELSE PlainCell(ValueCell(j))

\* a money section with a number, and a number under the boolean label
C20_Witness ==
    /\ OneSectionWalked
    /\ SectionKey = "Market VALUE and resale Price"
    /\ SectionData = VDict(<<Entry("Bumper", VInt(5000)),
                             Entry("Same Vehicle Detected", VInt(0))>>)
    /\ OneRowPerKey
    /\ ValueCell(1) = Paragraph("Rs. 5,000", RIGHT)
    /\ ValueCell(2) = Paragraph("No", LEFT)

-----------------------------------------------------------------------------
(* The cells of the emitted tables *)

\* a header label (a plain string or a Paragraph) or a formatted text cell
IsTextCell(cell) == cell.kind \in {"str", "Paragraph"}

\* a record with an 'Observation' or 'Recommendation' field standing in a cell
\* as _format_value returned it
IsRawRecordCell(cell) ==
    /\ cell.kind = "raw"
    /\ IsDict(cell.value)
    /\ HasKey(cell.value, "Observation") \/ HasKey(cell.value, "Recommendation")

\* C21: every cell of every table of the story is a header label or a formatted
\* text cell; a record with an 'Observation' or 'Recommendation' field is never
\* a cell as the raw record.
C21_NoRawRecordCell ==
    \A t \in 1..Len(StoryTables) :
        \A r \in 1..Len(StoryTables[t].data) :
            \A c \in 1..Len(StoryTables[t].data[r]) :
                /\ IsTextCell(StoryTables[t].data[r][c])
                /\ ~IsRawRecordCell(StoryTables[t].data[r][c])

-----------------------------------------------------------------------------
(* The page break and the sections named for consistency *)

NamesConsistency(name) == Contains(Lower(name), "consistency")

\* a page break stands immediately before the header block of the section name
BreakBeforeHeader(name) ==
    \E h \in 2..Len(story) :
        /\ IsSectionHeader(story[h])
        /\ story[h].text = name
        /\ story[h - 1] = PageBreak

\* C22 as stated: a page break stands immediately before the header block of
\* every rendered section whose name contains "consistency".
C22_ConsistencyPageBreak ==
    \A j \in 1..Len(report_data.v) :
        (Rendered(j) /\ NamesConsistency(report_data.v[j].k)) =>
            BreakBeforeHeader(report_data.v[j].k)

\* C22, amended: a rendered section whose name contains "consistency" has its
\* header block, and a page break stands immediately before that header exactly
\* when the name also contains "damage"; the word "consistency" brings no break.
C22_ConsistencyBreakOnlyWithDamage ==
    \A j \in 1..Len(report_data.v) :
        (Rendered(j) /\ NamesConsistency(report_data.v[j].k)) =>
            /\ \E h \in 1..Len(story) :
                  IsSectionHeader(story[h]) /\ story[h].text = report_data.v[j].k
            /\ BreakBeforeHeader(report_data.v[j].k) <=> NamesDamage(report_data.v[j].k)

\* a consistency section without a break, then one with the break its "damage" brings
C22_Witness ==
    /\ pc = "walk"
    /\ pos = 2
    /\ report_data.v[1].k = "Vehicle Consistency Check"
    /\ report_data.v[2].k = "Damage Consistency Review"
    /\ Rendered(1) /\ Rendered(2)
    /\ ~BreakBeforeHeader("Vehicle Consistency Check")
    /\ BreakBeforeHeader("Damage Consistency Review")
    /\ Cardinality({h \in 1..Len(story) : story[h] = PageBreak}) = 1

-----------------------------------------------------------------------------
(* The walk and the dedicated section builders *)

RepairName == "Repair Cost Estimation (INR)"

\* the place of the header block of the section name
HeaderAt(name) ==
    CHOOSE h \in 1..Len(story) : IsSectionHeader(story[h]) /\ story[h].text = name

\* the block is one the generic walk appends: a section header with the exact
\* name of a section of the input, a table in the style of _get_table_style,
\* never the sub-header, the 8-point spacer or the bold-last-row style that only
\* the dedicated builders give
WalkBlock(block) ==
    /\ block.kind = "Paragraph" =>
          /\ IsSectionHeader(block)
          /\ \E j \in 1..Len(report_data.v) : report_data.v[j].k = block.text
    /\ block # Spacer(1, 8)
    /\ IsDataTable(block) =>
          \E has_money \in BOOLEAN :
              TableOf(block).style = GetTableStyle(has_money, Len(TableOf(block).data))

\* the key-value table of the record content: the Parameter/DETAILS header, then
\* one row per key in the order of the input, in the generic money style
KeyValueTableInInputOrder(block, content) ==
    /\ block.kind = "Table"
    /\ block.ncols = 2
    /\ block.style = GetTableStyle(TRUE, 1 + Len(content.v))
    /\ Len(block.data) = 1 + Len(content.v)
    /\ block.data[1] = <<Plain("Parameter"), Plain("DETAILS")>>
    /\ \A i \in 1..Len(content.v) : block.data[i + 1][1] = Paragraph(content.v[i].k, LEFT)

\* C23: every block of the story after the page header is one the generic walk
\* appends, none is a block that only a dedicated section builder gives; a
\* rendered 'Repair Cost Estimation (INR)' section has its header under its
\* exact name with no page break before it, and when its content is a key-value
\* record its table is the generic key-value table with the rows in input order,
\* the 'Total Repair Cost' row where the input has it.
C23_GenericWalkOnly ==
    /\ \A h \in 3..Len(story) : WalkBlock(story[h])
    /\ \A j \in 1..Len(report_data.v) :
          (Rendered(j) /\ report_data.v[j].k = RepairName) =>
              /\ \E h \in 1..Len(story) :
                    IsSectionHeader(story[h]) /\ story[h].text = RepairName
              /\ story[HeaderAt(RepairName)] = HeaderParagraph(RepairName, "SectionHeader")
              /\ story[HeaderAt(RepairName) - 1] # PageBreak
              /\ (j <= pos /\ KeyValueShape(report_data.v[j].v)) =>
                    KeyValueTableInInputOrder(story[HeaderAt(RepairName) + 2],
                                              report_data.v[j].v)

\* the total first in the input and first in the table, no page break in the story
C23_Witness ==
    /\ OneSectionWalked
    /\ SectionKey = RepairName
    /\ SectionData = VDict(<<Entry("Total Repair Cost", VInt(6500)),
                             Entry("Bumper", VInt(5000))>>)
    /\ Len(StoryTables) = 1
    /\ StoryTables[1].data[2] = <<Paragraph("Total Repair Cost", LEFT),
                                  Paragraph("Rs. 6,500", RIGHT)>>
    /\ StoryTables[1].data[3] = <<Paragraph("Bumper", LEFT), Paragraph("Rs. 5,000", RIGHT)>>
    /\ \A h \in 1..Len(story) : story[h] # PageBreak

-----------------------------------------------------------------------------
(* The columns of the table of a sequence *)

\* the report has one section and its content is a non-empty sequence
SequenceSection ==
    /\ report_data # NoValue
    /\ Len(report_data.v) = 1
    /\ IsList(SectionData)
    /\ Len(SectionData.v) > 0

\* the walk raised on the section: it stands before it still
SectionRaised == pc = "raised" /\ pos < Len(report_data.v)

\* C24: the walk over a section whose content is a non-empty sequence, a
\* sequence of empty records included, raises nothing, and the table it emits,
\* if any, has at least one column.
C24_NoZeroColumnTable ==
    SequenceSection =>
        /\ ~SectionRaised
        /\ \A t \in 1..Len(StoryTables) :
              StoryTables[t].ncols >= 1 /\ Len(StoryTables[t].data[1]) >= 1

====
